---- MODULE Spec2Model ----
(***************************************************************************)
(* Mean functions of gpyrn (src/gpyrn/meanfunc.py): the parameter protocol *)
(* of MeanModel (get_parameters / set_parameters), the Sum and Product     *)
(* composites, the Constant and MultiConstant leaves, and the Keplerian    *)
(* eccentric-anomaly loop.                                                 *)
(*                                                                         *)
(* Real numbers are exact rationals <<numerator, denominator>>.  A numpy   *)
(* array is a sequence together with its identity: `alias` is the          *)
(* partition of the references (each object's self.pars, and the vector    *)
(* the caller holds) into groups that name the same array object.          *)
(***************************************************************************)
EXTENDS Integers, Sequences, FiniteSets, TLC

VARIABLES pars, parsize, cls, ctx, held, alias, ret,
          kpars, kpc, kt, M1, nd, count, kret

vars == <<pars, parsize, cls, ctx, held, alias, ret,
          kpars, kpc, kt, M1, nd, count, kret>>
mainVars == <<pars, parsize, cls, ctx, held, alias, ret>>
kepVars == <<kpars, kpc, kt, M1, nd, count, kret>>

(* ------------------------------ bounds -------------------------------- *)
\* longest stream handed to set_parameters
MaxStream == 4
\* passes of the Keplerian loop body the model follows
MaxCount == 3
\* longest times vector handed to Keplerian.__call__
MaxT == 2

(* --------------------------- real numbers ----------------------------- *)
Zero == <<0, 1>>
RAdd(a, b) == <<a[1] * b[2] + b[1] * a[2], a[2] * b[2]>>
RMul(a, b) == <<a[1] * b[1], a[2] * b[2]>>
REq(a, b) == a[1] * b[2] = b[1] * a[2]
\* a float stored into an integer array: the C cast, toward zero
CastInt(a) == IF a[1] >= 0 THEN <<a[1] \div a[2], 1>>
              ELSE <<-((-a[1]) \div a[2]), 1>>
\* parameter values the caller uses
Vals == {<<0, 1>>, <<5, 2>>}

RECURSIVE SeqsUpTo(_, _)
SeqsUpTo(S, n) == IF n = 0 THEN {<<>>}
                  ELSE LET shorter == SeqsUpTo(S, n - 1)
                       IN shorter \cup {Append(s, x) : s \in {q \in shorter : Len(q) = n - 1}, x \in S}
SeqsOfLen(S, n) == {s \in SeqsUpTo(S, n) : Len(s) = n}
\* the streams handed to set_parameters: of every length up to MaxStream,
\* with elements that all differ (b+1)/2, (b+2)/2, ...
Ramp(b, n) == [i \in 1..n |-> <<b + i, 2>>]
Streams == {Ramp(b, n) : b \in {0}, n \in 0..MaxStream}

(* ------------------------------ objects ------------------------------- *)
Leaves == {"c", "mc"}
Composites == {"s"}
Objs == Leaves \cup Composites
Refs == Objs \cup {"held"}
\* self.m1, self.m2 of the composite
m1(o) == "c"
m2(o) == "mc"

None == [tag |-> "None", val |-> <<>>]
NdArray(s) == [tag |-> "ndarray", val |-> s]
\* the last call: what was called on which object with which argument, the
\* exception it raised and the value it returned
NoCall == [op |-> "init", obj |-> "none", exc |-> "none", value |-> None,
           stream |-> <<>>, t |-> <<>>, dtype |-> "none"]

\* obsid and time handed to the MultiConstant constructor
Contexts == {[obsid |-> <<1, 1>>, time |-> <<0, 1>>],
             [obsid |-> <<1, 1, 2, 2>>, time |-> <<0, 1, 5, 6>>]}
\* times vectors handed to __call__ (after np.atleast_1d)
TimeInputs == {[dtype |-> d, val |-> v] : d \in {"int64", "float64"},
                                          v \in {<<0, 1>>, <<0, 1, 5, 6>>}}

(* ------------------------- array identities --------------------------- *)
Block(part, r) == CHOOSE b \in part : r \in b
\* r now names an array of its own
Detach(part, r) == ({b \ {r} : b \in part} \ {{}}) \cup {{r}}
\* r now names the array that target names
Join(part, r, target) ==
    IF r \in Block(part, target) THEN part
    ELSE LET rest == {b \ {r} : b \in part} \ {{}}
         IN {IF target \in b THEN b \cup {r} ELSE b : b \in rest}

(* --------------------------- MeanModel -------------------------------- *)
\* self.pars.size
Size(o) == Len(pars[o])

\* the assert admits a stream one value short
TooFewOffByOne(size, p) == Len(p) < size - 1

\* the assert of set_parameters fails
TooFew(size, p) == Len(p) < size

\* the whole stream is stored, not its first `size` values
NewParsUnsliced(size, p) == p

\* the slice stops one value early: p[:size - 1]
NewParsOffByOne(size, p) == SubSeq(p, 1, size - 1)

\* the vector set_parameters stores
NewPars(size, p) == IF Len(p) > size THEN SubSeq(p, 1, size) ELSE p

\* the value set_parameters returns
Remainder(size, p) == IF Len(p) > size THEN NdArray(SubSeq(p, size + 1, Len(p)))
                      ELSE None

\* the stored vector is the very array handed in (self.pars = p)
StoresArgument(size, p) == Len(p) = size

(* ------------------------- MultiConstant ------------------------------ *)
\* _parsize = (np.ediff1d(obsid) == 1).sum() + 1
MultiParsize(obsid) ==
    Cardinality({i \in 1..(Len(obsid) - 1) : obsid[i + 1] - obsid[i] = 1}) + 1

\* self.ii = obsid.astype(int) - 1   (zero-based indices)
ii(obsid) == [i \in 1..Len(obsid) |-> obsid[i] - 1]

\* the elements of s at the positions in idx, in order
RECURSIVE Pick(_, _, _)
Pick(s, idx, i) == IF i > Len(s) THEN <<>>
                   ELSE (IF i \in idx THEN <<s[i]>> ELSE <<>>) \o Pick(s, idx, i + 1)

RECURSIVE Insert(_, _)
Insert(x, s) == IF s = <<>> THEN <<x>>
                ELSE IF x <= Head(s) THEN <<x>> \o s
                ELSE <<Head(s)>> \o Insert(x, Tail(s))
RECURSIVE Sort(_)
Sort(s) == IF s = <<>> THEN <<>> ELSE Insert(Head(s), Sort(Tail(s)))

\* time_bins(): the first time and the midpoint of every change of obsid,
\* sorted; each edge is kept doubled, so that a midpoint is a whole number
time_bins(obsid, time) ==
    LET n == Len(obsid)
        last == Pick(time, {i \in 1..(n - 1) : obsid[i + 1] - obsid[i] # 0}, 1)
        first == Pick(time, {i \in 2..n : obsid[i] - obsid[i - 1] # 0}, 1)
        offset_times == [j \in 1..Len(last) |-> last[j] + first[j]]
    IN Sort(<<2 * time[1]>> \o offset_times)

\* np.digitize(x, bins) for increasing bins: i with bins[i-1] <= x < bins[i]
Digitize(x, bins) == Cardinality({j \in 1..Len(bins) : bins[j] <= 2 * x})

\* np.take(a, i) for one zero-based index: a negative index counts from the
\* end, an index out of range raises IndexError
TakeOk(a, i) == -Len(a) <= i /\ i < Len(a)
Take(a, i) == IF i >= 0 THEN a[i + 1] ELSE a[Len(a) + i + 1]

\* np.full_like(t, c): an array of the dtype of t filled with c
FullLike(t, c) == [i \in 1..Len(t.val) |->
                     IF t.dtype = "int64" THEN CastInt(c) ELSE c]

\* MultiConstant.__call__
MultiConstantCall(p, context, t) ==
    LET c == p[Len(p)]
        offsets == SubSeq(p, 1, Len(p) - 1) \o <<Zero>>
        idx == IF Len(t.val) = Len(context.time)
               THEN ii(context.obsid)
               ELSE LET bins == time_bins(context.obsid, context.time)
                    IN [i \in 1..Len(t.val) |-> Digitize(t.val[i], bins) - 1]
        full == FullLike(t, c)
    IN IF \A i \in 1..Len(idx) : TakeOk(offsets, idx[i])
       THEN [exc |-> "none",
             value |-> NdArray([i \in 1..Len(idx) |-> RAdd(full[i], Take(offsets, idx[i]))])]
       ELSE [exc |-> "IndexError", value |-> None]

(* ---------------------------- Constant -------------------------------- *)
\* Constant.__call__: np.full(t.shape, self.pars[0])
ConstantCall(p, t) ==
    [exc |-> "none", value |-> NdArray([i \in 1..Len(t.val) |-> p[1]])]

(* -------------------------- Sum / Product ----------------------------- *)
\* self.m1(t) + self.m2(t)  and  self.m1(t) * self.m2(t), elementwise
Combine(class, a, b) ==
    IF a.exc # "none" THEN a
    ELSE IF b.exc # "none" THEN b
    ELSE [exc |-> "none",
          value |-> NdArray([i \in 1..Len(a.value.val) |->
                       IF class = "Sum" THEN RAdd(a.value.val[i], b.value.val[i])
                       ELSE RMul(a.value.val[i], b.value.val[i])])]

\* o(t) with the parameter vectors P, by class
RECURSIVE Call(_, _, _)
Call(P, o, t) ==
    CASE cls[o] = "Constant" -> ConstantCall(P[o], t)
      [] cls[o] = "MultiConstant" -> MultiConstantCall(P[o], ctx, t)
      [] OTHER -> Combine(cls[o], Call(P, m1(o), t), Call(P, m2(o), t))

(* ------------------------------ state --------------------------------- *)
RLess(a, b) == a[1] * b[2] < b[1] * a[2]
One == <<1, 1>>

\* periods and eccentricities the caller uses
Periods == {<<-1, 1>>, <<0, 1>>, <<1, 1>>}
Eccs == {<<-1, 2>>, <<0, 1>>, <<1, 2>>, <<1, 1>>, <<2, 1>>}
\* Keplerian(P, K, e, w, phi, sys_vel)
KepArgs(P, e) == <<P, One, e, Zero, Zero, Zero>>
\* streams handed to Keplerian.set_parameters: one value short, exact, one over
KepStreams == UNION {{SubSeq(KepArgs(P, e), 1, 5), KepArgs(P, e),
                      KepArgs(P, e) \o <<Zero>>} : P \in Periods, e \in Eccs}

\* Keplerian is left as constructed while the other objects are exercised
KepIdle == /\ kpars = KepArgs(One, Zero)
           /\ kpc = "idle"
           /\ kt = 0
           /\ M1 = <<>>
           /\ nd = 0
           /\ count = 0
           /\ kret = NoCall

\* c = Constant(v); mc = MultiConstant(offsets, obsid, time); s = c + mc or
\* s = c * mc.  A MultiConstant exists only if len(offsets) == _parsize.
MainInit ==
    /\ ctx \in Contexts
    /\ \E kind \in {"Sum", "Product"} :
         cls = [o \in Objs |-> CASE o = "c" -> "Constant"
                                 [] o = "mc" -> "MultiConstant"
                                 [] OTHER -> kind]
    /\ \E pc \in SeqsOfLen(Vals, 1), pmc \in SeqsOfLen(Vals, MultiParsize(ctx.obsid)) :
         /\ pars = [o \in Objs |-> CASE o = "c" -> pc
                                     [] o = "mc" -> pmc
                                     [] OTHER -> pc \o pmc]
         /\ parsize = [o \in Objs |-> CASE o = "c" -> 1
                                        [] o = "mc" -> MultiParsize(ctx.obsid)
                                        [] OTHER -> 1 + MultiParsize(ctx.obsid)]
    /\ held = None
    /\ alias = {{r} : r \in Refs}
    /\ ret = NoCall

Init == MainInit /\ KepIdle

(* ----------------------------- actions -------------------------------- *)
\* the caller writes the first element of the vector it holds: p[0] = v
CallerWrite(v) ==
    /\ held.tag = "ndarray"
    /\ Len(held.val) > 0
    /\ held.val[1] # v
    /\ LET new == [held.val EXCEPT ![1] = v]
       IN /\ held' = NdArray(new)
          /\ pars' = [o \in Objs |-> IF o \in Block(alias, "held") THEN new ELSE pars[o]]
    /\ ret' = [NoCall EXCEPT !.op = "write"]
    /\ UNCHANGED <<parsize, cls, ctx, alias>>
    /\ UNCHANGED kepVars

\* v = o.get_parameters()
GetParameters(o) ==
    /\ held' = NdArray(pars[o])
    /\ alias' = Join(alias, "held", o)
    /\ ret' = [NoCall EXCEPT !.op = "get_parameters", !.obj = o,
                             !.value = NdArray(pars[o])]
    /\ UNCHANGED <<pars, parsize, cls, ctx>>
    /\ UNCHANGED kepVars

\* o.set_parameters(p), p a list literal (src = "list", np.atleast_1d makes
\* an array of it) or the array the caller holds (src = "held"); chained,
\* the caller keeps the returned value in place of p: p = o.set_parameters(p)
SetParameters(o, src, s, chained) ==
    /\ src = "held" => held.tag = "ndarray"
    /\ LET p == IF src = "held" THEN held.val ELSE s
           size == Size(o)
           call == [NoCall EXCEPT !.op = "set_parameters", !.obj = o, !.stream = p]
       IN IF TooFew(size, p)
          THEN /\ ret' = [call EXCEPT !.exc = "AssertionError"]
               /\ UNCHANGED <<pars, held, alias>>
          ELSE LET stored == IF StoresArgument(size, p) /\ src = "held"
                             THEN Join(alias, o, "held")
                             ELSE Detach(alias, o)
               IN /\ pars' = [pars EXCEPT ![o] = NewPars(size, p)]
                  /\ ret' = [call EXCEPT !.value = Remainder(size, p)]
                  /\ held' = IF chained THEN Remainder(size, p) ELSE held
                  /\ alias' = IF chained THEN Detach(stored, "held") ELSE stored
    /\ UNCHANGED <<parsize, cls, ctx>>
    /\ UNCHANGED kepVars

\* o(t)
Evaluate(o, t) ==
    /\ LET r == Call(pars, o, t)
       IN ret' = [NoCall EXCEPT !.op = "call", !.obj = o, !.exc = r.exc,
                                !.value = r.value, !.t = t.val, !.dtype = t.dtype]
    /\ UNCHANGED <<pars, parsize, cls, ctx, held, alias>>
    /\ UNCHANGED kepVars

\* The parameter protocol: what callers do with get_parameters and
\* set_parameters.  __call__ changes no state and is left to EvalSpec.
Next ==
    \/ \E v \in Vals : CallerWrite(v)
    \/ \E o \in Objs : GetParameters(o)
    \/ \E o \in Objs, s \in Streams : SetParameters(o, "list", s, FALSE)
    \/ \E o \in Objs, chained \in BOOLEAN : SetParameters(o, "held", <<>>, chained)

Spec == Init /\ [][Next]_vars

\* Evaluation: parameters are set from list literals and the objects called.
EvalNext ==
    \/ \E o \in Objs, s \in Streams : SetParameters(o, "list", s, FALSE)
    \/ \E o \in Objs, t \in TimeInputs : Evaluate(o, t)

EvalSpec == Init /\ [][EvalNext]_vars

(* ----------------------------- Keplerian ------------------------------ *)
\* the main objects are left as constructed while Keplerian is exercised
MainIdle ==
    /\ ctx = [obsid |-> <<1, 1>>, time |-> <<0, 1>>]
    /\ cls = [o \in Objs |-> CASE o = "c" -> "Constant"
                               [] o = "mc" -> "MultiConstant"
                               [] OTHER -> "Sum"]
    /\ pars = [o \in Objs |-> IF o = "s" THEN <<Zero, Zero>> ELSE <<Zero>>]
    /\ parsize = [o \in Objs |-> IF o = "s" THEN 2 ELSE 1]
    /\ held = None
    /\ alias = {{r} : r \in Refs}
    /\ ret = NoCall

\* Keplerian.__init__ stores what it is given
KepInit ==
    /\ \E P \in Periods, e \in Eccs : kpars = KepArgs(P, e)
    /\ kpc = "idle"
    /\ kt = 0
    /\ M1 = <<>>
    /\ nd = 0
    /\ count = 0
    /\ kret = NoCall
    /\ MainIdle

\* Keplerian inherits MeanModel.set_parameters
KepSetParameters(p) ==
    /\ kpc = "idle"
    /\ LET size == Len(kpars)
           call == [NoCall EXCEPT !.op = "set_parameters", !.obj = "kep", !.stream = p]
       IN IF TooFew(size, p)
          THEN /\ kret' = [call EXCEPT !.exc = "AssertionError"]
               /\ UNCHANGED kpars
          ELSE /\ kpars' = NewPars(size, p)
               /\ kret' = [call EXCEPT !.value = Remainder(size, p)]
    /\ UNCHANGED <<kpc, kt, M1, nd, count>>
    /\ UNCHANGED mainVars

\* np.where(np.abs(M1) > criteria)[0]: the indices that have not converged
convd(above) == {i \in 1..Len(above) : above[i]}

\* Lines 262-270.  The residuals are floating-point values the model does not
\* compute: `above` says which of them exceed criteria, any outcome when
\* e # 0.  With e = 0, E0 is M0 and every residual is exactly zero (or nan).
KepCall(n, above) ==
    /\ kpc = "idle"
    /\ IF n = 0
       THEN \* t[0] of an empty array
            /\ kret' = [NoCall EXCEPT !.op = "call", !.obj = "kep", !.exc = "IndexError"]
            /\ UNCHANGED <<kpc, kt, M1, nd, count>>
       ELSE /\ Len(above) = n
            /\ REq(kpars[3], Zero) => \A i \in 1..n : ~above[i]
            /\ kt' = n
            /\ M1' = above
            /\ nd' = Cardinality(convd(above))
            /\ count' = 0
            /\ kpc' = "body_or_exit"
            /\ kret' = [NoCall EXCEPT !.op = "call", !.obj = "kep"]
    /\ UNCHANGED kpars
    /\ UNCHANGED mainVars

\* while nd > 0:
KepWhile ==
    /\ kpc = "body_or_exit"
    /\ kpc' = IF nd > 0 THEN "body" ELSE "exit"
    /\ UNCHANGED <<kpars, kt, M1, nd, count, kret>>
    /\ UNCHANGED mainVars

\* `x is True`: x is the object True itself
IsTrue(x) == x.tag = "bool" /\ x.val
\* np.sum of one Python bool
SumBool(b) == IF b THEN 1 ELSE 0

\* the count of unconverged elements as it would be taken from the residuals
\* of the pass before: np.sum(np.abs(M1) > criteria), M1 against the old M0
StaleCount(above) == Cardinality(convd(above))

\* Lines 282-285.  M0 is overwritten with E0 - e sin(E0), so the new M1 is
\* that value minus itself: zero (or nan), never above criteria.  The array
\* of comparisons is then compared with `is True`, and that bool is summed.
LoopCount(above) ==
    LET convergence_criteria == NdArray([i \in 1..Len(above) |-> FALSE])
    IN SumBool(IsTrue(convergence_criteria))

\* one pass of the loop body; the model follows at most MaxCount passes
KepBody ==
    /\ kpc = "body"
    /\ count < MaxCount
    /\ count' = count + 1
    /\ M1' = [i \in 1..Len(M1) |-> FALSE]
    /\ nd' = LoopCount(M1)
    /\ kpc' = "body_or_exit"
    /\ UNCHANGED <<kpars, kt, kret>>
    /\ UNCHANGED mainVars

\* nu, RV: one value for every time; no parameter is checked on the way, and
\* the values may be nan or inf (a division by 1 - e or by P = 0)
KepReturn ==
    /\ kpc = "exit"
    /\ kret' = [kret EXCEPT !.value = NdArray([i \in 1..kt |-> "RV"])]
    /\ kpc' = "idle"
    /\ UNCHANGED <<kpars, kt, M1, nd, count>>
    /\ UNCHANGED mainVars

KepStep == KepWhile \/ KepBody \/ KepReturn

KepNext ==
    \/ \E p \in KepStreams : KepSetParameters(p)
    \/ \E n \in 0..MaxT : \E above \in [1..n -> BOOLEAN] : KepCall(n, above)
    \/ KepWhile
    \/ KepBody
    \/ KepReturn

\* a call that has started runs on: the interpreter executes the loop
KepSpec == KepInit /\ [][KepNext]_vars /\ WF_vars(KepStep)

(* ============================== claims ================================ *)

\* parameter_count of the instance: the _parsize attribute
parameter_count(o) == parsize[o]
\* a set_parameters call on o has just returned without raising
JustSet(o) == ret.op = "set_parameters" /\ ret.obj = o /\ ret.exc = "none"

(* C1: after set_parameters(stream) on a composite, with a stream at least
   as long as both children's parameter counts together, child1 holds the
   first child1.parameter_count values of the stream, child2 the next
   child2.parameter_count values, and the composite evaluates with them. *)
C1_SetDistributesToChildren ==
    \A o \in Composites :
      LET n1 == parameter_count(m1(o))
          n2 == parameter_count(m2(o))
          first == SubSeq(ret.stream, 1, n1)
          next == SubSeq(ret.stream, n1 + 1, n1 + n2)
          given == [pars EXCEPT ![m1(o)] = first, ![m2(o)] = next]
      IN (JustSet(o) /\ Len(ret.stream) >= n1 + n2)
           => /\ pars[m1(o)] = first
              /\ pars[m2(o)] = next
              /\ \A t \in TimeInputs : Call(pars, o, t) = Call(given, o, t)

(* C2: in every reachable state the composite's get_parameters() is the
   concatenation of child1.get_parameters() and child2.get_parameters(). *)
C2_CompositeReadsThrough ==
    \A o \in Composites : pars[o] = pars[m1(o)] \o pars[m2(o)]

(* C3: set_parameters(s) with len(s) >= n stores s[0..n-1] and returns the
   sequence s[n..], which is an empty sequence when len(s) == n. *)
C3_ReturnsRemainingSequence ==
    \A o \in Objs :
      LET n == parameter_count(o)
      IN (JustSet(o) /\ Len(ret.stream) >= n)
           => /\ pars[o] = SubSeq(ret.stream, 1, n)
              /\ ret.value = NdArray(SubSeq(ret.stream, n + 1, Len(ret.stream)))

\* the step is a set_parameters call with fewer values than parameter_count
ShortSetStep ==
    /\ ret'.op = "set_parameters"
    /\ Len(ret'.stream) < parameter_count(ret'.obj)

(* C4, as claimed: set_parameters with len(stream) < parameter_count fails
   with a ParameterCountError, returns nothing and leaves the parameter
   vector as it was. *)
C4_FailsWithParameterCountError ==
    [][ShortSetStep => /\ ret'.exc = "ParameterCountError"
                       /\ ret'.value = None
                       /\ pars' = pars]_vars

(* C4, amended: set_parameters with len(stream) < parameter_count fails with
   an AssertionError, returns nothing and leaves the parameter vector (and
   the array it is) as it was. *)
C4_FailsWithAssertionError ==
    [][ShortSetStep => /\ ret'.exc = "AssertionError"
                       /\ ret'.value = None
                       /\ pars' = pars
                       /\ alias' = alias]_vars

\* a set_parameters call has failed on a composite and on a leaf alike
C4_Witness ==
    /\ ret.op = "set_parameters"
    /\ ret.exc = "AssertionError"
    /\ Len(ret.stream) = parameter_count(ret.obj) - 1
    /\ Len(ret.stream) > 0

(* C5: len(get_parameters()) == parameter_count for every instance, after
   construction and after every successful or failed set_parameters. *)
C5_LenIsParameterCount ==
    \A o \in Objs : Len(pars[o]) = parameter_count(o)

\* a longer stream has been consumed by a composite
C5_Witness ==
    /\ JustSet("s")
    /\ Len(ret.stream) > parameter_count("s")

(* C6: get_parameters() returns a copy: a later in-place change by the caller
   to the returned vector, or to a stream passed to set_parameters, never
   changes the stored parameters of any instance. *)
C6_CallerWriteLeavesParameters ==
    [][ret'.op = "write" => pars' = pars]_vars

\* the step is v = m.get_parameters() followed by m.set_parameters(v), m a
\* composite
RoundTripStep ==
    /\ ret.op = "get_parameters"
    /\ ret.obj \in Composites
    /\ ret'.op = "set_parameters"
    /\ ret'.obj = ret.obj
    /\ ret'.stream = ret.value.val

(* C7: v = m.get_parameters() followed by m.set_parameters(v) on a composite
   leaves get_parameters() equal to v and m.evaluate(t) unchanged for every
   t, whatever set_parameters calls came before. *)
C7_RoundTripIsIdempotent ==
    [][RoundTripStep => /\ ret'.exc = "none"
                        /\ pars'[ret.obj] = ret.value.val
                        /\ \A t \in TimeInputs :
                             Call(pars', ret.obj, t) = Call(pars, ret.obj, t)]_vars

\* the round trip has been made on a composite whose children had been set
\* since it was built
C7_Witness ==
    /\ JustSet("s")
    /\ held = NdArray(ret.stream)
    /\ "s" \in Block(alias, "held")
    /\ pars["s"] = ret.stream
    /\ pars["s"] # pars["c"] \o pars["mc"]

(* C8: MultiConstant evaluated on a times vector as long as the stored time
   returns mean + off_j for an observation of instrument j < k and exactly
   mean for one of the last instrument k. *)
C8_MultiConstantOffsets ==
    (/\ ret.op = "call"
     /\ ret.obj = "mc"
     /\ Len(ret.t) = Len(ctx.time))
      => /\ ret.exc = "none"
         /\ Len(ret.value.val) = Len(ctx.obsid)
         /\ \A i \in 1..Len(ctx.obsid) :
              LET k == parameter_count("mc")
                  j == ctx.obsid[i]
                  mean == pars["mc"][k]
              IN REq(ret.value.val[i],
                     IF j < k THEN RAdd(mean, pars["mc"][j]) ELSE mean)

\* P <= 0, e < 0 or e >= 1
InvalidKeplerian(p) ==
    \/ ~RLess(Zero, p[1])
    \/ RLess(p[3], Zero)
    \/ ~RLess(p[3], One)

(* C9: Keplerian rejects e >= 1, e < 0 and P <= 0 with an
   InvalidParameterError, at the latest when it is evaluated: no
   radial-velocity result is returned for such parameters. *)
C9_InvalidParametersRejected ==
    (/\ kpc = "idle"
     /\ kret.op = "call"
     /\ kt > 0
     /\ InvalidKeplerian(kpars))
      => /\ kret.exc = "InvalidParameterError"
         /\ kret.value.tag # "ndarray"

(* C10: Keplerian evaluate always terminates: the loop body runs at most
   once, the count of unconverged elements it computes is always 0, and a
   call that has started returns. *)
C10_LoopExitsAfterOnePass ==
    /\ [](count <= 1)
    /\ []((kpc = "body_or_exit" /\ count > 0) => nd = 0)
    /\ (kpc # "idle") ~> (kpc = "idle")

\* the body has run on a call that started with unconverged elements
C10_Witness ==
    /\ kpc = "exit"
    /\ count = 1
    /\ kt = MaxT

====
